---- MODULE Spec2Model ----
(***************************************************************************)
(* Per-camera video assembly (utils/video_syn.py): parse_filename,         *)
(* get_grouped_images, create_video_for_camera and main.                   *)
(*                                                                         *)
(* A filename is a sequence of tokens.  The literals of the regular        *)
(* expression ("pano_camera", "_frame_") and the extensions are one token  *)
(* each, a digit is one token, and "x" stands for any other text.          *)
(***************************************************************************)
EXTENDS Integers, Sequences, FiniteSets, TLC

\* ------------------------------------------------------------------ bounds
\* the most files the source directories hold together
MaxFiles == 3

\* --------------------------------------------------------------- constants
DEFAULT_FPS == 10

\* Python's None: the empty tuple, which no parsed key and no image equals
None == <<>>

Digits == {"0", "1", "2", "3"}

DigitVal(t) == CASE t = "0" -> 0 [] t = "1" -> 1 [] t = "2" -> 2 [] OTHER -> 3

\* code point order of the first character of a token, as str comparison uses it
Ord(t) == CASE t \in {".png", ".PNG", ".txt"} -> 46
            [] t = "0" -> 48 [] t = "1" -> 49 [] t = "2" -> 50 [] t = "3" -> 51
            [] t = "_frame_" -> 95
            [] t = "pano_camera" -> 112
            [] OTHER -> 120

\* the file names the directories may hold
NameUniverse ==
    { <<"pano_camera", "0", "_frame_", "0", "1", ".png">>,
      <<"pano_camera", "0", "_frame_", "2", ".png">>,
      <<"pano_camera", "2", "_frame_", "1", ".PNG">>,
      <<"pano_camera", "1", "0", "_frame_", "3", ".png">>,
      <<"pano_camera", "0", "_frame_", "1", "x", ".png">>,
      <<"x", ".png">>,
      <<"pano_camera", "0", "_frame_", "1", ".txt">> }

Directories == <<"train", "test">>

\* img.shape of a decoded image: <<height, width, layers>>
Shapes == { <<1, 2, 3>>, <<2, 1, 3>> }

\* ----------------------------------------------------------- parse_filename
\* int() of a run of decimal digits
RECURSIVE IntOf(_)
IntOf(ds) == IF ds = <<>> THEN 0
             ELSE 10 * IntOf(SubSeq(ds, 1, Len(ds) - 1)) + DigitVal(ds[Len(ds)])

\* end of the greedy \d+ run that starts at position i (i - 1 when there is none)
DigitRunEnd(f, i) ==
    CHOOSE j \in (i - 1)..Len(f) :
        /\ \A k \in i..j : f[k] \in Digits
        /\ (j = Len(f) \/ f[j + 1] \notin Digits)

\* (pano_camera\d+)_frame_(\d+) matched with its first token at position i
MatchesAt(f, i) ==
    /\ i \in 1..Len(f)
    /\ f[i] = "pano_camera"
    /\ LET j == DigitRunEnd(f, i + 1) IN
          /\ j >= i + 1
          /\ j + 1 <= Len(f)
          /\ f[j + 1] = "_frame_"
          /\ DigitRunEnd(f, j + 2) >= j + 2

NoMatch == <<None, None>>

\* re.search: the leftmost position where the pattern matches, anywhere in the name
ParseFilename(f) ==
    IF \E i \in 1..Len(f) : MatchesAt(f, i)
    THEN LET i == CHOOSE i \in 1..Len(f) :
                    MatchesAt(f, i) /\ \A k \in 1..(i - 1) : ~MatchesAt(f, k)
             j == DigitRunEnd(f, i + 1)
             e == DigitRunEnd(f, j + 2)
         IN  <<SubSeq(f, i, j), IntOf(SubSeq(f, j + 2, e))>>
    ELSE NoMatch

\* ------------------------------------------------------- get_grouped_images
valid_extensions == {".png", ".jpg", ".jpeg", ".bmp", ".tif", ".tiff"}

Lower(t) == IF t = ".PNG" THEN ".png" ELSE t

\* os.path.splitext(f)[1]: the last suffix, none for a name that is only a suffix
SplitExt(f) ==
    IF Len(f) >= 2 /\ Ord(f[Len(f)]) = 46 THEN f[Len(f)] ELSE ""

\* os.path.join(directory, f)
JoinPath(d, f) == <<d, f>>

\* grouped_files[camera_id].append(item) on a defaultdict(list)
AppendTo(gf, cid, item) ==
    IF cid \in DOMAIN gf
    THEN [gf EXCEPT ![cid] = Append(@, item)]
    ELSE [k \in DOMAIN gf \cup {cid} |-> IF k = cid THEN <<item>> ELSE gf[k]]

\* the body of "for f in files" for one entry f of directory d
ScanFile(gf, d, f) ==
    IF Lower(SplitExt(f)) \in valid_extensions
    THEN LET p == ParseFilename(f) IN
         IF p[1] # None THEN AppendTo(gf, p[1], <<p[2], JoinPath(d, f)>>)
         ELSE gf
    ELSE gf

RECURSIVE ScanFiles(_, _, _)
ScanFiles(gf, d, files) ==
    IF files = <<>> THEN gf
    ELSE ScanFiles(ScanFile(gf, d, Head(files)), d, Tail(files))

EmptyDict == [k \in {} |-> <<>>]

\* mutant: a missing directory ends the scan (break instead of continue)
RECURSIVE GroupedImages_StopAtMissing(_, _, _, _)
GroupedImages_StopAtMissing(gf, dirs, ex, listing) ==
    IF dirs = <<>> THEN gf
    ELSE LET d == Head(dirs) IN
         IF ~ex[d] THEN gf
         ELSE GroupedImages_StopAtMissing(ScanFiles(gf, d, listing[d]), Tail(dirs),
                                          ex, listing)

\* "for directory in directories": listing[d] is what os.listdir(d) returns
RECURSIVE GroupedImages(_, _, _, _)
GroupedImages(gf, dirs, ex, listing) ==
    IF dirs = <<>> THEN gf
    ELSE LET d == Head(dirs) IN
         IF ~ex[d] THEN GroupedImages(gf, Tail(dirs), ex, listing)
         ELSE GroupedImages(ScanFiles(gf, d, listing[d]), Tail(dirs), ex, listing)

\* the "Warning: Directory not found" lines, in the order they are printed
RECURSIVE ScanWarnings(_, _)
ScanWarnings(dirs, ex) ==
    IF dirs = <<>> THEN <<>>
    ELSE (IF ~ex[Head(dirs)]
          THEN <<[kind |-> "Warning", what |-> Head(dirs)]>> ELSE <<>>)
         \o ScanWarnings(Tail(dirs), ex)

\* ------------------------------------------------------------------- sorted
RECURSIVE StrLess(_, _)
StrLess(a, b) ==
    IF a = <<>> THEN b # <<>>
    ELSE IF b = <<>> THEN FALSE
    ELSE IF Ord(Head(a)) # Ord(Head(b)) THEN Ord(Head(a)) < Ord(Head(b))
    ELSE StrLess(Tail(a), Tail(b))

\* sorted(grouped_data.keys())
RECURSIVE SortedKeys(_)
SortedKeys(S) ==
    IF S = {} THEN <<>>
    ELSE LET m == CHOOSE m \in S : \A o \in S \ {m} : StrLess(m, o)
         IN  <<m>> \o SortedKeys(S \ {m})

\* mutant: the sort descends (reverse=True)
RECURSIVE InsertByIteration_Descending(_, _)
InsertByIteration_Descending(sorted, item) ==
    IF sorted = <<>> THEN <<item>>
    ELSE IF sorted[Len(sorted)][1] >= item[1] THEN Append(sorted, item)
    ELSE Append(InsertByIteration_Descending(SubSeq(sorted, 1, Len(sorted) - 1), item),
                sorted[Len(sorted)])

\* list.sort(key=lambda x: x[0]): stable, ascending in the iteration number
RECURSIVE InsertByIteration(_, _)
InsertByIteration(sorted, item) ==
    IF sorted = <<>> THEN <<item>>
    ELSE IF sorted[Len(sorted)][1] <= item[1] THEN Append(sorted, item)
    ELSE Append(InsertByIteration(SubSeq(sorted, 1, Len(sorted) - 1), item),
                sorted[Len(sorted)])

\* mutant: the list is left in scan order
SortByIteration_ScanOrder(list) == list

RECURSIVE SortByIteration(_)
SortByIteration(list) ==
    IF list = <<>> THEN <<>>
    ELSE InsertByIteration(SortByIteration(SubSeq(list, 1, Len(list) - 1)),
                           list[Len(list)])

\* [item[1] for item in image_data_list]
ImagePaths(list) == [i \in 1..Len(list) |-> list[i][2]]

\* --------------------------------------------------------------- cv2 calls
\* the None that cv2.imread returns for a file it cannot decode
NoImage == [src |-> None, shape |-> <<0, 0, 0>>, pixels |-> "None"]

\* no cv2.VideoWriter
NoWriter == [path |-> <<>>, fps |-> 0, size |-> <<0, 0>>]

\* cv2.imread(path): None, or the decoded image of one of the shapes
Imread(path) ==
    {NoImage} \cup {[src |-> path, shape |-> s, pixels |-> "decoded"] : s \in Shapes}

\* (width, height) of an image: (img.shape[1], img.shape[0])
SizeOf(img) == <<img.shape[2], img.shape[1]>>

\* cv2.resize(img, size): size is (width, height), the pixels are resampled
Resize(img, sz) ==
    [img EXCEPT !.shape = <<sz[2], sz[1], img.shape[3]>>, !.pixels = "resampled"]

\* mutant: the frame is written at its own dimensions
Normalize_Never(img, sz) == img

\* "Resize if necessary"
Normalize(img, sz) == IF SizeOf(img) # sz THEN Resize(img, sz) ELSE img

\* cv2.VideoWriter(output_path, ...) creates the file with no frame in it
OpenWriter(files, path) ==
    [k \in DOMAIN files \cup {path} |-> IF k = path THEN <<>> ELSE files[k]]

\* os.path.join(output_dir, f"{camera_id}.mp4")
OutputPath(cid) == Append(cid, ".mp4")

\* -------------------------------------------------------------------- state
VARIABLES
    exists,             \* os.path.exists of each source directory
    content,            \* the entries of each source directory
    pc,                 \* position of the job
    grouped_data,       \* main: the catalog, camera_id -> list of (iteration, path)
    sorted_camera_ids,  \* main: sorted(grouped_data.keys())
    cam_idx,            \* main: position of "for camera_id in sorted_camera_ids"
    image_paths,        \* create_video_for_camera: the sorted paths
    first_img,          \* create_video_for_camera: the image read for the dimensions
    size,               \* create_video_for_camera: (width, height) of the writer
    out,                \* create_video_for_camera: the cv2.VideoWriter
    img_idx,            \* create_video_for_camera: position of "for img_path in ..."
    reads,              \* what cv2.imread returned in each iteration of that loop
    videos,             \* the files of the output directory
    log                 \* what was printed

vars == <<exists, content, pc, grouped_data, sorted_camera_ids, cam_idx,
          image_paths, first_img, size, out, img_idx, reads, videos, log>>

fs == <<exists, content>>
locals == <<image_paths, first_img, size, out, img_idx, reads>>

Dirs == {Directories[i] : i \in 1..Len(Directories)}

\* the orders in which os.listdir may return the entries of each directory
Orders(S) == {s \in [1..Cardinality(S) -> S] : \A i, j \in 1..Cardinality(S) :
                                                   s[i] = s[j] => i = j}
Listings == {l \in [Dirs -> UNION {Orders(content[d]) : d \in Dirs}] :
                \A d \in Dirs : l[d] \in Orders(content[d])}

camera_id == sorted_camera_ids[cam_idx]

Emit(kind, what) == Append(log, [kind |-> kind, what |-> what])

Init ==
    /\ exists \in [Dirs -> BOOLEAN]
    /\ content \in [Dirs -> SUBSET NameUniverse]
    /\ Cardinality(content["train"]) + Cardinality(content["test"]) <= MaxFiles
    /\ \A d \in Dirs : ~exists[d] => content[d] = {}
    /\ pc = "main"
    /\ grouped_data = EmptyDict
    /\ sorted_camera_ids = <<>>
    /\ cam_idx = 0
    /\ image_paths = <<>>
    /\ first_img = NoImage
    /\ size = <<0, 0>>
    /\ out = NoWriter
    /\ img_idx = 0
    /\ reads = <<>>
    /\ videos = EmptyDict
    /\ log = <<>>

\* the locals of create_video_for_camera after it returned
Return ==
    /\ pc' = "camera_loop"
    /\ cam_idx' = cam_idx + 1
    /\ image_paths' = <<>>
    /\ first_img' = NoImage
    /\ size' = <<0, 0>>
    /\ out' = NoWriter
    /\ img_idx' = 0
    /\ reads' = <<>>

\* main, up to the start of the loop over the cameras
Main ==
    /\ pc = "main"
    /\ \E listing \in Listings :
          grouped_data' = GroupedImages(EmptyDict, Directories, exists, listing)
    /\ sorted_camera_ids' = SortedKeys(DOMAIN grouped_data')
    /\ IF Len(sorted_camera_ids') = 0
       THEN /\ log' = ScanWarnings(Directories, exists)
                        \o <<[kind |-> "NoImages", what |-> "No valid images found"]>>
            /\ pc' = "done"
            /\ cam_idx' = 0
       ELSE /\ log' = ScanWarnings(Directories, exists)
            /\ pc' = "camera_loop"
            /\ cam_idx' = 1
    /\ UNCHANGED <<fs, locals, videos>>

\* the loop calls create_video_for_camera for the next camera
NextCamera ==
    /\ pc = "camera_loop"
    /\ cam_idx <= Len(sorted_camera_ids)
    /\ pc' = "create_video"
    /\ UNCHANGED <<fs, grouped_data, sorted_camera_ids, cam_idx, locals, videos, log>>

\* the loop is over
Finish ==
    /\ pc = "camera_loop"
    /\ cam_idx > Len(sorted_camera_ids)
    /\ pc' = "done"
    /\ log' = Emit("Done", "All videos processed successfully!")
    /\ UNCHANGED <<fs, grouped_data, sorted_camera_ids, cam_idx, locals, videos>>

\* mutant: the paths are popped off the list of the catalog
SortAndExtract_Consume ==
    /\ pc = "create_video"
    /\ grouped_data' = [grouped_data EXCEPT ![camera_id] = <<>>]
    /\ image_paths' = ImagePaths(SortByIteration(grouped_data[camera_id]))
    /\ pc' = "read_first"
    /\ UNCHANGED <<cam_idx, first_img, size, out, img_idx, reads>>
    /\ UNCHANGED <<fs, sorted_camera_ids, videos, log>>

\* create_video_for_camera: sort the list it was handed, take the paths
SortAndExtract ==
    /\ pc = "create_video"
    /\ grouped_data' = [grouped_data EXCEPT ![camera_id] = SortByIteration(@)]
    /\ IF ImagePaths(grouped_data'[camera_id]) = <<>>
       THEN Return
       ELSE /\ image_paths' = ImagePaths(grouped_data'[camera_id])
            /\ pc' = "read_first"
            /\ UNCHANGED <<cam_idx, first_img, size, out, img_idx, reads>>
    /\ UNCHANGED <<fs, sorted_camera_ids, videos, log>>

\* mutant: an unreadable first image ends the job
ReadFirst_AbortJob ==
    /\ pc = "read_first"
    /\ \E img \in Imread(image_paths[1]) :
          IF img = NoImage
          THEN /\ log' = Emit("Error", image_paths[1])
               /\ pc' = "done"
               /\ UNCHANGED <<cam_idx, locals, videos>>
          ELSE /\ first_img' = img
               /\ size' = SizeOf(img)
               /\ out' = [path |-> OutputPath(camera_id), fps |-> DEFAULT_FPS,
                          size |-> size']
               /\ videos' = OpenWriter(videos, OutputPath(camera_id))
               /\ log' = Emit("Processing", <<camera_id, Len(image_paths)>>)
               /\ pc' = "write_loop"
               /\ img_idx' = 1
               /\ UNCHANGED <<cam_idx, image_paths, reads>>
    /\ UNCHANGED <<fs, grouped_data, sorted_camera_ids>>

\* create_video_for_camera: read the first image, open the writer
ReadFirst ==
    /\ pc = "read_first"
    /\ \E img \in Imread(image_paths[1]) :
          IF img = NoImage
          THEN /\ log' = Emit("Error", image_paths[1])
               /\ Return
               /\ UNCHANGED videos
          ELSE /\ first_img' = img
               /\ size' = SizeOf(img)
               /\ out' = [path |-> OutputPath(camera_id), fps |-> DEFAULT_FPS,
                          size |-> size']
               /\ videos' = OpenWriter(videos, OutputPath(camera_id))
               /\ log' = Emit("Processing", <<camera_id, Len(image_paths)>>)
               /\ pc' = "write_loop"
               /\ img_idx' = 1
               /\ UNCHANGED <<cam_idx, image_paths, reads>>
    /\ UNCHANGED <<fs, grouped_data, sorted_camera_ids>>

\* mutant: an unreadable image ends the loop (break instead of continue)
WriteFrame_BreakOnNone ==
    /\ pc = "write_loop"
    /\ img_idx <= Len(image_paths)
    /\ \E img \in Imread(image_paths[img_idx]) :
          /\ reads' = Append(reads, img)
          /\ IF img = NoImage
             THEN /\ UNCHANGED videos
                  /\ img_idx' = Len(image_paths) + 1
             ELSE /\ videos' = [videos EXCEPT ![out.path] =
                                   Append(@, Normalize(img, size))]
                  /\ img_idx' = img_idx + 1
    /\ UNCHANGED <<fs, pc, grouped_data, sorted_camera_ids, cam_idx, image_paths,
                   first_img, size, out, log>>

\* create_video_for_camera: one iteration of the loop over image_paths
WriteFrame ==
    /\ pc = "write_loop"
    /\ img_idx <= Len(image_paths)
    /\ \E img \in Imread(image_paths[img_idx]) :
          /\ reads' = Append(reads, img)
          /\ IF img = NoImage
             THEN UNCHANGED videos
             ELSE videos' = [videos EXCEPT ![out.path] =
                                Append(@, Normalize(img, size))]
    /\ img_idx' = img_idx + 1
    /\ UNCHANGED <<fs, pc, grouped_data, sorted_camera_ids, cam_idx, image_paths,
                   first_img, size, out, log>>

\* create_video_for_camera: out.release() and the report
Release ==
    /\ pc = "write_loop"
    /\ img_idx > Len(image_paths)
    /\ log' = Emit("Saved", out.path)
    /\ Return
    /\ UNCHANGED <<fs, grouped_data, sorted_camera_ids, videos>>

Next ==
    \/ Main
    \/ NextCamera
    \/ Finish
    \/ SortAndExtract
    \/ ReadFirst
    \/ WriteFrame
    \/ Release

Spec == Init /\ [][Next]_vars

\* ---------------------------------------------------------------- helpers
Elems(seq) == {seq[i] : i \in 1..Len(seq)}

Logged(kind, what) == \E i \in 1..Len(log) : log[i].kind = kind /\ log[i].what = what

\* the image files of the existing directories whose name parses to group g
ParseablePaths(g) ==
    { JoinPath(d, f) : <<d, f>> \in
        { df \in Dirs \X NameUniverse :
            /\ exists[df[1]]
            /\ df[2] \in content[df[1]]
            /\ Lower(SplitExt(df[2])) \in valid_extensions
            /\ ParseFilename(df[2])[1] = g } }

GroupKeys == {ParseFilename(f)[1] : f \in NameUniverse} \ {None}

\* order_key of a catalogued path
OrderKey(path) == ParseFilename(path[2])[2]

OrderKeys(paths) == [i \in 1..Len(paths) |-> OrderKey(paths[i])]

\* get_grouped_images has just returned and main has sorted the keys
ScanReturned ==
    \/ pc = "camera_loop" /\ cam_idx = 1
    \/ pc = "done" /\ sorted_camera_ids = <<>>

\* ----------------------------------------------------------------- claims
\* C1: the path sequence fed to the encoder for a group is ordered by
\* non-decreasing order_key and holds each record catalogued for that group
\* exactly once (same length, nothing lost, nothing duplicated).
C1Theorem ==
    pc = "read_first" =>
        /\ \A i, j \in 1..Len(image_paths) :
              i < j => OrderKey(image_paths[i]) <= OrderKey(image_paths[j])
        /\ Len(image_paths) = Cardinality(ParseablePaths(camera_id))
        /\ Elems(image_paths) = ParseablePaths(camera_id)

C1Witness ==
    /\ pc = "read_first"
    /\ Len(image_paths) >= 3
    /\ image_paths[1][1] = "test"
    /\ image_paths[Len(image_paths)][1] = "train"

\* C2: after the scan the catalog holds, for each group key, exactly the
\* parseable image files of all the listed directories that exist; a missing
\* directory contributes nothing, is reported with a warning, and the job
\* still runs to its end.
C2Theorem ==
    /\ ScanReturned =>
        /\ DOMAIN grouped_data = {g \in GroupKeys : ParseablePaths(g) # {}}
        /\ \A g \in DOMAIN grouped_data :
              /\ Elems(ImagePaths(grouped_data[g])) = ParseablePaths(g)
              /\ Len(grouped_data[g]) = Cardinality(ParseablePaths(g))
        /\ \A d \in Dirs : ~exists[d] <=> Logged("Warning", d)
    /\ (pc = "done" /\ sorted_camera_ids # <<>>) =>
          /\ log[Len(log)].kind = "Done"
          /\ cam_idx = Len(sorted_camera_ids) + 1

C2Witness ==
    /\ pc = "done"
    /\ ~exists["train"]
    /\ exists["test"]
    /\ Cardinality(DOMAIN grouped_data) >= 2
    /\ \E p \in DOMAIN videos : Logged("Saved", p)

\* the camera whose Sequence starts with this path
CameraOf(path) == ParseFilename(path[2])[1]

\* an "Error: Could not read image" line was printed for this camera
FirstReadFailed(cid) ==
    \E i \in 1..Len(log) : log[i].kind = "Error" /\ CameraOf(log[i].what) = cid

\* C3: when the first path of a Sequence is unreadable, its encoding is aborted
\* with an error before any writer is opened, no output file exists for it, and
\* the driver still calls the encoder for every remaining group.
C3Theorem ==
    /\ \A cid \in Elems(sorted_camera_ids) :
          FirstReadFailed(cid) =>
              /\ OutputPath(cid) \notin DOMAIN videos
              /\ ~Logged("Saved", OutputPath(cid))
              /\ (pc = "write_loop" => out.path # OutputPath(cid))
    /\ (pc = "camera_loop" /\ log # <<>> /\ log[Len(log)].kind = "Error") =>
          out = NoWriter
    /\ pc \in {"camera_loop", "done"} =>
          \A k \in 1..Len(sorted_camera_ids) :
              k < cam_idx =>
                  \/ FirstReadFailed(sorted_camera_ids[k])
                  \/ Logged("Saved", OutputPath(sorted_camera_ids[k]))
    /\ (pc = "done" /\ sorted_camera_ids # <<>>) =>
          cam_idx = Len(sorted_camera_ids) + 1

C3Witness ==
    /\ pc = "done"
    /\ Len(sorted_camera_ids) >= 2
    /\ FirstReadFailed(sorted_camera_ids[1])
    /\ Logged("Saved", OutputPath(sorted_camera_ids[2]))

\* the paths of the first n loop iterations whose read returned an image
RECURSIVE KeptPaths(_)
KeptPaths(n) ==
    IF n = 0 THEN <<>>
    ELSE KeptPaths(n - 1) \o
         (IF reads[n] # NoImage THEN <<image_paths[n]>> ELSE <<>>)

\* the source paths of the frames written so far to the open writer
WrittenPaths == [i \in 1..Len(videos[out.path]) |-> videos[out.path][i].src]

\* C4: with a readable first path, the frames written are exactly the paths
\* the loop could read, each once and in Sequence order; the first path is
\* written once, and an unreadable path removes only its own frame and never
\* stops the loop.
C4Theorem ==
    pc = "write_loop" =>
        /\ Len(reads) = img_idx - 1
        /\ \A k \in 1..Len(reads) :
              reads[k] # NoImage => reads[k].src = image_paths[k]
        /\ WrittenPaths = KeptPaths(img_idx - 1)

C4Witness ==
    /\ pc = "write_loop"
    /\ Len(image_paths) = 3
    /\ img_idx = 4
    /\ reads[1] # NoImage
    /\ reads[2] = NoImage
    /\ reads[3] # NoImage
    /\ Len(videos[out.path]) = 2

\* the images the loop read, without the failed reads
KeptReads == SelectSeq(reads, LAMBDA r : r # NoImage)

\* C5: every frame handed to the writer has the canonical resolution, the
\* (width, height) of the first image at which the writer was opened; an image
\* of other dimensions is resampled to it, an image of these dimensions is
\* written unchanged.
C5Theorem ==
    pc = "write_loop" =>
        /\ first_img.src = image_paths[1]
        /\ size = <<first_img.shape[2], first_img.shape[1]>>
        /\ out.size = size
        /\ Len(videos[out.path]) = Len(KeptReads)
        /\ \A i \in 1..Len(videos[out.path]) :
              LET frame == videos[out.path][i]
                  img == KeptReads[i]
              IN  /\ <<frame.shape[2], frame.shape[1]>> = size
                  /\ frame.src = img.src
                  /\ IF <<img.shape[2], img.shape[1]>> = size
                     THEN frame = img
                     ELSE frame.pixels = "resampled"

C5Witness ==
    /\ pc = "write_loop"
    /\ Len(videos[out.path]) >= 2
    /\ \E i \in 1..Len(videos[out.path]) : videos[out.path][i].pixels = "resampled"
    /\ \E i \in 1..Len(videos[out.path]) : videos[out.path][i].pixels = "decoded"

\* the catalog of a run in which os.listdir returns the entries as l does
CatalogOf(l) == GroupedImages(EmptyDict, Directories, exists, l)

\* the Sequence that run composes for a group
SequenceOf(l, cid) == ImagePaths(SortByIteration(CatalogOf(l)[cid]))

\* no two records of the group share an order_key
NoTies(paths) ==
    \A i, j \in 1..Len(paths) : OrderKey(paths[i]) = OrderKey(paths[j]) => i = j

\* C6: a run over the same directory contents whose listings return the entries
\* in any other order finds the same groups, encodes them in the same
\* (lexicographic) order and composes the same Sequence for each group that
\* has no two records with the same order_key; with equal order_keys only the
\* relative order of the tied records may differ.
C6Theorem ==
    /\ ScanReturned =>
          /\ \A i, j \in 1..Len(sorted_camera_ids) :
                i < j => StrLess(sorted_camera_ids[i], sorted_camera_ids[j])
          /\ \A l \in Listings :
                sorted_camera_ids = SortedKeys(DOMAIN CatalogOf(l))
    /\ pc = "read_first" =>
          \A l \in Listings :
              /\ OrderKeys(SequenceOf(l, camera_id)) = OrderKeys(image_paths)
              /\ Elems(SequenceOf(l, camera_id)) = Elems(image_paths)
              /\ NoTies(image_paths) => SequenceOf(l, camera_id) = image_paths

C6Witness ==
    /\ pc = "read_first"
    /\ Len(image_paths) >= 2
    /\ NoTies(image_paths)
    /\ image_paths[1][1] = image_paths[2][1]
    /\ Len(sorted_camera_ids) >= 2

\* C7: an output file and its "Saved" report exist for a Sequence only if at
\* least one frame was written to it.
C7Claim ==
    \A path \in DOMAIN videos :
        Logged("Saved", path) => Len(videos[path]) >= 1

\* C8: each skipped directory and each unreadable frame dropped in the write
\* loop has a diagnostic in the output.
C8Claim ==
    /\ pc # "main" => \A d \in Dirs : ~exists[d] => Logged("Warning", d)
    /\ pc = "write_loop" =>
          \A k \in 1..Len(reads) :
              reads[k] = NoImage =>
                  \E i \in 1..Len(log) :
                      /\ log[i].kind \in {"Error", "Skipped"}
                      /\ log[i].what = image_paths[k]

\* <group-token><digits>_frame_<digits><extension>, and nothing else
FitsShape(f) ==
    /\ Len(f) >= 5
    /\ f[1] = "pano_camera"
    /\ LET j == DigitRunEnd(f, 2) IN
          /\ j >= 2
          /\ j + 1 <= Len(f)
          /\ f[j + 1] = "_frame_"
          /\ LET e == DigitRunEnd(f, j + 2) IN
                /\ e >= j + 2
                /\ e + 1 = Len(f)
                /\ Ord(f[Len(f)]) = 46

\* C9: only files whose whole name has the shape
\* <group-token><digits>_frame_<digits><extension> reach the catalog; for every
\* other name parse_filename returns (None, None).
C9Claim ==
    ScanReturned =>
        \A cid \in DOMAIN grouped_data :
            \A i \in 1..Len(grouped_data[cid]) :
                LET f == grouped_data[cid][i][2][2] IN
                    /\ FitsShape(f)
                    /\ cid = SubSeq(f, 1, DigitRunEnd(f, 2))

\* C10: the catalog is never changed once the scan has returned it.
C10Claim == [][pc # "main" => grouped_data' = grouped_data]_vars

\* C10 as amended: once the scan has returned the catalog, its groups and the
\* records of each group stay the same; only the order of the records of the
\* group handed to create_video_for_camera may change, the lists of all other
\* groups are untouched.
C10Theorem ==
    [][pc # "main" =>
        /\ DOMAIN grouped_data' = DOMAIN grouped_data
        /\ \A cid \in DOMAIN grouped_data :
              /\ Elems(grouped_data'[cid]) = Elems(grouped_data[cid])
              /\ Len(grouped_data'[cid]) = Len(grouped_data[cid])
              /\ (pc # "create_video" \/ cid # camera_id) =>
                    grouped_data'[cid] = grouped_data[cid]]_vars

C10Witness ==
    /\ pc = "read_first"
    /\ Len(grouped_data[camera_id]) >= 2
    /\ grouped_data[camera_id][1][2][1] = "test"
    /\ grouped_data[camera_id][2][2][1] = "train"

====
